---- MODULE Spec2Model ----
(***************************************************************************)
(* Libp2pNode (crates/pylibp2p/src/lib.rs): the engine slot, the running   *)
(* flag, the event queue, the connection stats, the caller threads of the  *)
(* control surface and the scheduler task spawned by start_event_loop.     *)
(* Every Mutex critical section of the source is one atomic step; a method *)
(* that takes two locks in turn (start_event_loop) is two steps, and the   *)
(* scheduler loop is one step per lock acquisition or await. No critical    *)
(* section of the node panics, so no lock is ever poisoned and every        *)
(* `if let Ok(..) = lock()` takes its first branch.                         *)
(***************************************************************************)
EXTENDS Integers, Sequences, FiniteSets, TLC

\* lib.rs:358  if queue.len() > 1000
QueueCap == 1000
\* lib.rs:359  queue.drain(0..500)
DrainCount == 500

\* Bounds of the exploration.
MaxCalls == 4
MaxBytes == 2
MaxOccurrences == 2
MaxTasks == 2

Threads == {"t1", "t2"}
Peers == {"p1", "p2"}
Addrs == {"a1"}
\* A string that does not parse as a Multiaddr.
BadAddrs == {"not-an-address"}
Topics == {"x"}
\* A string that does not parse as a PeerId.
BadPeers == {"not-a-peer"}
TaskIds == 1..MaxTasks
\* Option<T>: None is the empty sequence, Some(x) the one-element sequence.
None == <<>>
Some(x) == <<x>>
\* Option<String> fields of an event.
NoStr == "None"

VARIABLES
    swarm,            \* Arc<Mutex<Option<Swarm>>>: None, or the engine
    running,          \* Arc<Mutex<bool>>
    event_queue,      \* Arc<Mutex<Vec<CustomSwarmEvent>>>
    connection_stats, \* Arc<Mutex<HashMap<String, u64>>>
    pc,               \* caller thread -> "idle" | "start_take"
    spc,              \* scheduler task -> its position in the spawned future
    sswarm,           \* scheduler task -> the engine it moved in, or None
    socc,             \* scheduler task -> the occurrence select_next_some returned
    ncalls,           \* number of control-surface calls begun
    nocc,             \* number of event-producing occurrences yielded
    last,             \* the call that returned last: [op, res]
    delivered,        \* every event get_events has returned, in lock order
    evicted,          \* every event the trim removed from the log, in order
    info,             \* caller thread -> the HashMap get_network_info is filling
    gossipsub,        \* a GossipsubManager (protocols.rs)
    autonat,          \* an AutonatManager (discovery.rs)
    stream_manager,   \* a StreamManager (protocols.rs)
    memory_storage,   \* a MemoryStorage (storage.rs)
    persistent_storage \* a PersistentStorage and the file it saves to (storage.rs)

\* The manager and storage objects: each is owned by its caller (&mut self), so
\* each of its methods is one step.
objs == <<gossipsub, autonat, stream_manager, memory_storage, persistent_storage>>

\* The node and its scheduler.
node == <<swarm, running, event_queue, connection_stats, pc, spc, sswarm, socc,
          nocc, delivered, evicted, info>>

vars == <<swarm, running, event_queue, connection_stats, pc, spc, sswarm, socc,
          ncalls, nocc, last, delivered, evicted, info, gossipsub, autonat,
          stream_manager, memory_storage, persistent_storage>>

----------------------------------------------------------------------------
\* The engine (Swarm<CoreBehaviour>) as far as the node observes it.
NewSwarm == [listen_req |-> {}, listeners |-> {}, dialing |-> {}, subs |-> {},
             bootstrapped |-> FALSE]

TakeKeeps(slot) == slot
\* Option::take: what the slot holds after the engine was moved out.
Take(slot) == None

NotChecked(flag) == FALSE
\* if *running { return Err("Event loop already running") }
AlreadyRunning(flag) == flag

Toggled(flag) == ~flag
\* stop_event_loop: *running = false
StopValue(flag) == FALSE

Dropped(engine) == None
\* Put swarm back when done: *swarm_guard = Some(swarm)
PutBack(engine) == Some(engine)

AlwaysSpawns(taken) == TRUE
\* if let Some(mut swarm) = swarm { spawn } else { Err("No swarm available") }
Spawns(taken) == taken # None

\* A task identifier the runtime has not in use.
FreeTask == CHOOSE k \in TaskIds : spc[k] = "none" /\ \A j \in TaskIds : spc[j] = "none" => k <= j

Active(k) == spc[k] # "none"
ActiveTasks == {k \in TaskIds : Active(k)}
Holders == {k \in TaskIds : sswarm[k] # None}
InStart == {t \in Threads : pc[t] = "start_take"}

Returns(op, res) == last' = [op |-> op, res |-> res]

NoEvent == [event_type |-> NoStr, peer_id |-> NoStr, address |-> NoStr, id |-> 0]

\* let mut info = HashMap::new(), before the counts are inserted.
NoInfo == [listeners |-> 0, connected_peers |-> 0, external_addresses |-> 0]

\* GossipsubManager::new
NewGossipsub == [topics |-> <<>>, subscribed_peers |-> <<>>, message_cache |-> <<>>]
\* AutonatManager::new
NewAutonat == [probe_history |-> <<>>, last_probe_result |-> None]
\* StreamManager::new
NewStreamManager == [active_streams |-> <<>>, stream_stats |-> <<>>, protocol_handlers |-> <<>>]
\* MemoryStorage::new
NewMemoryStorage == [store |-> <<>>, records |-> <<>>]
\* PersistentStorage::new on a path where no file exists yet.
NewPersistentStorage == [records |-> <<>>, file |-> None]

\* Every manager and storage object as its constructor leaves it.
Constructed ==
    /\ info = [t \in Threads |-> NoInfo]
    /\ gossipsub = NewGossipsub
    /\ autonat = NewAutonat
    /\ stream_manager = NewStreamManager
    /\ memory_storage = NewMemoryStorage
    /\ persistent_storage = NewPersistentStorage

Init ==
    /\ swarm = Some(NewSwarm)
    /\ running = FALSE
    /\ event_queue = <<>>
    /\ connection_stats = <<>>
    /\ pc = [t \in Threads |-> "idle"]
    /\ spc = [k \in TaskIds |-> "none"]
    /\ sswarm = [k \in TaskIds |-> None]
    /\ socc = [k \in TaskIds |-> NoEvent]
    /\ ncalls = 0
    /\ nocc = 0
    /\ last = [op |-> NoStr, res |-> NoStr]
    /\ delivered = <<>>
    /\ evicted = <<>>
    /\ Constructed

----------------------------------------------------------------------------
\* Caller threads.

Call(t) == pc[t] = "idle" /\ ncalls < MaxCalls /\ ncalls' = ncalls + 1

\* The four Mutexes of the node.
Guards == {"swarm", "running", "event_queue", "connection_stats"}

StartKeepsRunning == {"running"}
\* The guards start_event_loop holds between its two critical sections: the
\* running guard is dropped where its `if let` block ends.
BetweenLocks == {}

AwaitKeepsQueue == {"event_queue"}
\* The guards the loop holds while select_next_some().await is pending.
AcrossAwait == {}

\* The guards a caller thread, or a scheduler task, holds from one step to the
\* next; every other critical section begins and ends within its step.
Holding(t) == IF pc[t] = "start_take" THEN BetweenLocks ELSE {}
SchedHolding(k) == IF spc[k] = "advance" THEN AcrossAwait ELSE {}

\* lock(): the guard is granted when nobody holds it.
Free(g) ==
    /\ \A t \in Threads : g \notin Holding(t)
    /\ \A k \in TaskIds : g \notin SchedHolding(k)

\* start_event_loop, first critical section: the running flag.
StartCheck(t) ==
    /\ Call(t)
    /\ Free("running")
    /\ IF AlreadyRunning(running)
         THEN /\ Returns("start_event_loop", "AlreadyRunning")
              /\ UNCHANGED <<running, pc>>
         ELSE /\ running' = TRUE
              /\ pc' = [pc EXCEPT ![t] = "start_take"]
              /\ UNCHANGED last
    /\ UNCHANGED <<info, objs, evicted, swarm, event_queue, connection_stats, spc, sswarm, socc, nocc, delivered>>

\* start_event_loop, second critical section: the slot, then the spawn.
StartTake(t) ==
    /\ pc[t] = "start_take"
    /\ Free("swarm")
    /\ pc' = [pc EXCEPT ![t] = "idle"]
    /\ swarm' = Take(swarm)
    /\ IF Spawns(swarm)
         THEN /\ \E k \in TaskIds : spc[k] = "none"
              /\ spc' = [spc EXCEPT ![FreeTask] = "check"]
              /\ sswarm' = [sswarm EXCEPT ![FreeTask] = swarm]
              /\ Returns("start_event_loop", "Ok")
         ELSE /\ Returns("start_event_loop", "NoSwarm")
              /\ UNCHANGED <<spc, sswarm>>
    /\ UNCHANGED <<info, objs, evicted, running, event_queue, connection_stats, socc, ncalls, nocc, delivered>>

StopEventLoop(t) ==
    /\ Call(t)
    /\ Free("running")
    /\ running' = StopValue(running)
    /\ Returns("stop_event_loop", "Ok")
    /\ UNCHANGED <<info, objs, evicted, swarm, event_queue, connection_stats, pc, spc, sswarm, socc, nocc, delivered>>

\* get_events: clone the queue, clear it, return the clone (one critical section).
Cloned(queue) == queue
NotCleared(queue) == queue
\* queue.clear()
Cleared(queue) == <<>>

GetEvents(t) ==
    /\ Call(t)
    /\ Free("event_queue")
    /\ Returns("get_events", Cloned(event_queue))
    /\ event_queue' = Cleared(event_queue)
    /\ delivered' = delivered \o Cloned(event_queue)
    /\ UNCHANGED <<info, objs, evicted, swarm, running, connection_stats, pc, spc, sswarm, socc, nocc>>

GetConnectionStats(t) ==
    /\ Call(t)
    /\ Free("connection_stats")
    /\ Returns("get_connection_stats", connection_stats)
    /\ UNCHANGED <<info, objs, evicted, swarm, running, event_queue, connection_stats, pc, spc, sswarm, socc,
                   nocc, delivered>>

IsRunning(t) ==
    /\ Call(t)
    /\ Free("running")
    /\ Returns("is_running", running)
    /\ UNCHANGED <<info, objs, evicted, swarm, running, event_queue, connection_stats, pc, spc, sswarm, socc,
                   nocc, delivered>>

\* The control-surface pattern: lock the slot, act on the engine only if it is there.
\* start_listening with an address that parses; listen_on accepts it.
ListenOn(engine, a) == [engine EXCEPT !.listen_req = @ \cup ({a} \ engine.listeners)]

AlwaysParses(a) == TRUE
\* address.parse::<Multiaddr>()
Parses(a) == a \in Addrs

\* The call that returned last, with the argument it was given.
ReturnsFor(op, arg, res) == last' = [op |-> op, res |-> res, arg |-> arg]

StartListening(t, a) ==
    /\ Call(t)
    /\ Parses(a) => Free("swarm")
    /\ IF ~Parses(a)
         THEN /\ ReturnsFor("start_listening", a, "InvalidAddress")
              /\ UNCHANGED swarm
         ELSE \/ /\ swarm' = IF swarm # None THEN Some(ListenOn(swarm[1], a)) ELSE swarm
                 /\ ReturnsFor("start_listening", a, "Ok")
              \/ \* swarm.listen_on(addr) is refused by the transport
                 /\ swarm # None
                 /\ UNCHANGED swarm
                 /\ ReturnsFor("start_listening", a, "EngineError")
    /\ UNCHANGED <<info, objs, evicted, running, event_queue, connection_stats, pc, spc, sswarm, socc, nocc,
                   delivered>>

MovedOut(slot) == None
\* if let Some(ref swarm) = *swarm_guard: the engine is borrowed, the slot keeps it.
Borrowed(slot) == slot

GetListeners(t) ==
    /\ Call(t)
    /\ Free("swarm")
    /\ Returns("get_listeners", IF swarm # None THEN swarm[1].listeners ELSE {})
    /\ swarm' = Borrowed(swarm)
    /\ UNCHANGED <<info, objs, evicted, running, event_queue, connection_stats, pc, spc, sswarm, socc,
                   nocc, delivered>>

\* swarm.dial(addr): the attempt is enqueued.
DialOn(engine, a) == [engine EXCEPT !.dialing = @ \cup {a}]

Dial(t, a) ==
    /\ Call(t)
    /\ Parses(a) => Free("swarm")
    /\ IF ~Parses(a)
         THEN /\ ReturnsFor("dial", a, "InvalidAddress")
              /\ UNCHANGED swarm
         ELSE \/ /\ swarm' = IF swarm # None THEN Some(DialOn(swarm[1], a)) ELSE swarm
                 /\ ReturnsFor("dial", a, "Ok")
              \/ \* swarm.dial(addr) is refused
                 /\ swarm # None
                 /\ UNCHANGED swarm
                 /\ ReturnsFor("dial", a, "EngineError")
    /\ UNCHANGED <<info, objs, evicted, running, event_queue, connection_stats, pc, spc, sswarm, socc,
                   nocc, delivered>>

\* gossipsub.subscribe(&topic): Ok(true) if new, Ok(false) if already subscribed.
SubscribeOn(engine, topic) == [engine EXCEPT !.subs = @ \cup {topic}]

SubscribeGossip(t, topic) ==
    /\ Call(t)
    /\ Free("swarm")
    /\ swarm' = IF swarm # None THEN Some(SubscribeOn(swarm[1], topic)) ELSE swarm
    /\ ReturnsFor("subscribe_gossip", topic, "Ok")
    /\ UNCHANGED <<info, objs, evicted, running, event_queue, connection_stats, pc, spc, sswarm, socc,
                   nocc, delivered>>

\* gossipsub.unsubscribe(&topic): true if the node was subscribed to the topic.
UnsubscribeOn(engine, topic) == [engine EXCEPT !.subs = @ \ {topic}]
WasSubscribed(engine, topic) == topic \in engine.subs

\* if !result { return Err("Failed to unsubscribe from topic") }
UnsubscribeResult(result) == IF result THEN "Ok" ELSE "FailedToUnsubscribe"

UnsubscribeGossip(t, topic) ==
    /\ Call(t)
    /\ Free("swarm")
    /\ IF swarm # None
         THEN /\ swarm' = Some(UnsubscribeOn(swarm[1], topic))
              /\ ReturnsFor("unsubscribe_gossip", topic,
                            UnsubscribeResult(WasSubscribed(swarm[1], topic)))
         ELSE /\ UNCHANGED swarm
              /\ ReturnsFor("unsubscribe_gossip", topic, "Ok")
    /\ UNCHANGED <<info, objs, evicted, running, event_queue, connection_stats, pc, spc, sswarm, socc,
                   nocc, delivered>>

\* peer_id.parse::<PeerId>()
ParsesPeer(p) == p \in Peers

\* swarm.disconnect_peer_id(peer): the connections with the peer are closed. The
\* engine keeps no list of peers it refuses, and the node keeps none either.
DisconnectPeer(engine, p) == engine

BanPeer(t, p) ==
    /\ Call(t)
    /\ ParsesPeer(p) => Free("swarm")
    /\ IF ~ParsesPeer(p)
         THEN /\ ReturnsFor("ban_peer", p, "InvalidPeerId")
              /\ UNCHANGED swarm
         ELSE /\ swarm' = IF swarm # None THEN Some(DisconnectPeer(swarm[1], p)) ELSE swarm
              /\ ReturnsFor("ban_peer", p, "Ok")
    /\ UNCHANGED <<info, objs, evicted, running, event_queue, connection_stats, pc, spc, sswarm, socc,
                   nocc, delivered>>

\* unban_peer parses its argument and does nothing else.
UnbanPeer(t, p) ==
    /\ Call(t)
    /\ ReturnsFor("unban_peer", p, IF ParsesPeer(p) THEN "Ok" ELSE "InvalidPeerId")
    /\ UNCHANGED <<info, objs, evicted, swarm, running, event_queue, connection_stats, pc, spc, sswarm,
                   socc, nocc, delivered>>

SilentOk == "Ok"
\* Err("Swarm not initialized")
NotInitialized == "SwarmNotInitialized"

\* kademlia.bootstrap(): a query is started, or NoKnownPeers when the routing
\* table (which the node does not expose) is empty.
Bootstrap(t) ==
    /\ Call(t)
    /\ Free("swarm")
    /\ IF swarm # None
         THEN \E known \in BOOLEAN :
                IF known
                  THEN /\ swarm' = Some([swarm[1] EXCEPT !.bootstrapped = TRUE])
                       /\ Returns("bootstrap", "Ok")
                  ELSE /\ UNCHANGED swarm
                       /\ Returns("bootstrap", "NoKnownPeers")
         ELSE /\ UNCHANGED swarm
              /\ Returns("bootstrap", NotInitialized)
    /\ UNCHANGED <<info, objs, evicted, running, event_queue, connection_stats, pc, spc, sswarm, socc,
                   nocc, delivered>>

\* swarm.connected_peers() and swarm.external_addresses(): what the engine in the
\* slot reports is decided by the network, any set of peers or of addresses.
GetConnectedPeers(t) ==
    /\ Call(t)
    /\ Free("swarm")
    /\ \E connected \in SUBSET Peers :
         Returns("get_connected_peers", IF swarm # None THEN connected ELSE {})
    /\ swarm' = Borrowed(swarm)
    /\ UNCHANGED <<info, objs, evicted, running, event_queue, connection_stats, pc, spc, sswarm,
                   socc, nocc, delivered>>

GetExternalAddresses(t) ==
    /\ Call(t)
    /\ Free("swarm")
    /\ \E external \in SUBSET Addrs :
         Returns("get_external_addresses", IF swarm # None THEN external ELSE {})
    /\ swarm' = Borrowed(swarm)
    /\ UNCHANGED <<info, objs, evicted, running, event_queue, connection_stats, pc, spc, sswarm,
                   socc, nocc, delivered>>

\* is_connected: the peer id is parsed first; swarm.is_connected(&peer) is the
\* engine's answer, Ok(false) the answer without an engine.
IsConnected(t, p) ==
    /\ Call(t)
    /\ ParsesPeer(p) => Free("swarm")
    /\ IF ~ParsesPeer(p)
         THEN ReturnsFor("is_connected", p, "InvalidPeerId")
         ELSE \E connected \in BOOLEAN :
                ReturnsFor("is_connected", p, IF swarm # None THEN connected ELSE FALSE)
    /\ swarm' = Borrowed(swarm)
    /\ UNCHANGED <<info, objs, evicted, running, event_queue, connection_stats, pc, spc, sswarm,
                   socc, nocc, delivered>>

\* get_network_info: get_listeners, get_connected_peers, get_external_addresses
\* and is_running in turn, each its own critical section, the lengths inserted
\* into the map as they come.
InfoListeners(t) ==
    /\ Call(t)
    /\ Free("swarm")
    /\ info' = [info EXCEPT ![t] =
                  [NoInfo EXCEPT !.listeners =
                      Cardinality(IF swarm # None THEN swarm[1].listeners ELSE {})]]
    /\ pc' = [pc EXCEPT ![t] = "info_peers"]
    /\ UNCHANGED <<objs, evicted, swarm, running, event_queue, connection_stats, spc, sswarm,
                   socc, nocc, last, delivered>>

InfoPeers(t) ==
    /\ pc[t] = "info_peers"
    /\ Free("swarm")
    /\ \E connected \in SUBSET Peers :
         info' = [info EXCEPT ![t].connected_peers =
                     Cardinality(IF swarm # None THEN connected ELSE {})]
    /\ pc' = [pc EXCEPT ![t] = "info_external"]
    /\ UNCHANGED <<objs, evicted, swarm, running, event_queue, connection_stats, spc, sswarm,
                   socc, ncalls, nocc, last, delivered>>

InfoExternal(t) ==
    /\ pc[t] = "info_external"
    /\ Free("swarm")
    /\ \E external \in SUBSET Addrs :
         info' = [info EXCEPT ![t].external_addresses =
                     Cardinality(IF swarm # None THEN external ELSE {})]
    /\ pc' = [pc EXCEPT ![t] = "info_running"]
    /\ UNCHANGED <<objs, evicted, swarm, running, event_queue, connection_stats, spc, sswarm,
                   socc, ncalls, nocc, last, delivered>>

InfoRunning(t) ==
    /\ pc[t] = "info_running"
    /\ Free("running")
    /\ Returns("get_network_info",
               [listeners |-> info[t].listeners,
                connected_peers |-> info[t].connected_peers,
                external_addresses |-> info[t].external_addresses,
                running |-> running])
    /\ info' = [info EXCEPT ![t] = NoInfo]
    /\ pc' = [pc EXCEPT ![t] = "idle"]
    /\ UNCHANGED <<objs, evicted, swarm, running, event_queue, connection_stats, spc, sswarm,
                   socc, ncalls, nocc, delivered>>

GetNetworkInfo(t) ==
    \/ InfoListeners(t)
    \/ InfoPeers(t)
    \/ InfoExternal(t)
    \/ InfoRunning(t)

----------------------------------------------------------------------------
\* The scheduler task: the future spawned by start_event_loop.

\* !*running
ShouldStop(flag) == ~flag

\* The occurrences select_next_some can yield on this engine. The ones the loop
\* turns into events are numbered (id) in the order they are yielded.
\* endpoint.get_remote_address() of a connection with peer p.
RemoteAddress(p) == IF p = "p1" THEN "a1" ELSE "a2"

\* The occurrences the engine owes the node: the address of every listener it
\* was asked to open, and the connection of every dial that succeeds.
Owed(engine) ==
    [event_type : {"NewListenAddr"}, peer_id : {NoStr}, address : engine.listen_req]
    \cup {[event_type |-> "ConnectionEstablished", peer_id |-> p, address |-> RemoteAddress(p)] :
            p \in {q \in Peers : RemoteAddress(q) \in engine.dialing}}

Occurrences(engine) ==
    Owed(engine)
    \cup {[event_type |-> "ConnectionEstablished", peer_id |-> p, address |-> RemoteAddress(p)] :
            p \in Peers}
    \cup [event_type : {"ConnectionClosed"}, peer_id : Peers, address : {NoStr}]
    \cup [event_type : {"Behaviour"}, peer_id : {NoStr}, address : {NoStr}]

YieldedKeeps(engine, o) == engine
\* The engine after it yielded occurrence o.
Yielded(engine, o) ==
    CASE o.event_type = "NewListenAddr" ->
            [engine EXCEPT !.listen_req = @ \ {o.address},
                           !.listeners = @ \cup {o.address}]
      [] o.event_type = "ConnectionEstablished" ->
            [engine EXCEPT !.dialing = @ \ {o.address}]
      [] OTHER -> engine

IncrementFromOne(stats, p) ==
    [q \in DOMAIN stats \cup {p} |->
        IF q = p THEN (IF p \in DOMAIN stats THEN stats[p] ELSE 1) + 1 ELSE stats[q]]
ReplaceMap(stats, p) ==
    [q \in {p} |-> (IF p \in DOMAIN stats THEN stats[p] ELSE 0) + 1]
\* *stats.entry(peer_id).or_insert(0) += 1
Increment(stats, p) ==
    [q \in DOMAIN stats \cup {p} |->
        IF q = p THEN (IF p \in DOMAIN stats THEN stats[p] ELSE 0) + 1 ELSE stats[q]]

EventOfNobody(o) ==
    [event_type |-> IF o.event_type = "Behaviour" THEN "BehaviourEvent" ELSE o.event_type,
     peer_id |-> NoStr, address |-> o.address, id |-> o.id]
\* CustomSwarmEvent pushed for an occurrence (the match arms of the loop).
EventOf(o) ==
    [event_type |-> IF o.event_type = "Behaviour" THEN "BehaviourEvent" ELSE o.event_type,
     peer_id |-> o.peer_id, address |-> o.address, id |-> o.id]

PushFront(queue, e) == <<e>> \o queue
PushWhileRunning(queue, e) == IF running THEN Append(queue, e) ELSE queue
\* queue.push(event)
Push(queue, e) == Append(queue, e)

TrimNewest(queue) ==
    IF Len(queue) > QueueCap THEN SubSeq(queue, 1, Len(queue) - DrainCount) ELSE queue
\* if queue.len() > 1000 { queue.drain(0..500) }
Trim(queue) ==
    IF Len(queue) > QueueCap THEN SubSeq(queue, DrainCount + 1, Len(queue)) ELSE queue

SchedCheck(k) ==
    /\ spc[k] = "check"
    /\ Free("running")
    /\ spc' = [spc EXCEPT ![k] = IF ShouldStop(running) THEN "putback" ELSE "advance"]
    /\ UNCHANGED <<info, objs, evicted, swarm, running, event_queue, connection_stats, pc, sswarm, socc,
                   ncalls, nocc, last, delivered>>

\* select_next_some().await returns an occurrence one of the first four arms matches.
SchedAdvance(k) ==
    /\ spc[k] = "advance"
    /\ \E o \in Occurrences(sswarm[k][1]) :
         /\ o \in Owed(sswarm[k][1]) \/ nocc < MaxOccurrences
         /\ socc' = [socc EXCEPT ![k] = [event_type |-> o.event_type, peer_id |-> o.peer_id,
                                         address |-> o.address, id |-> nocc + 1]]
         /\ sswarm' = [sswarm EXCEPT ![k] = Some(Yielded(sswarm[k][1], o))]
         /\ spc' = [spc EXCEPT ![k] =
                      IF o.event_type = "ConnectionEstablished" THEN "stats" ELSE "push"]
    /\ nocc' = nocc + 1
    /\ UNCHANGED <<info, objs, evicted, swarm, running, event_queue, connection_stats, pc, ncalls, last, delivered>>

\* select_next_some().await returns OutgoingConnectionError for a dial that
\* failed or timed out: the `_ => {}` arm matches.
SchedDialError(k) ==
    /\ spc[k] = "advance"
    /\ \E a \in sswarm[k][1].dialing :
         sswarm' = [sswarm EXCEPT ![k] = Some([sswarm[k][1] EXCEPT !.dialing = @ \ {a}])]
    /\ spc' = [spc EXCEPT ![k] = "trim"]
    /\ UNCHANGED <<info, objs, evicted, swarm, running, event_queue, connection_stats, pc, socc,
                   ncalls, nocc, last, delivered>>

\* select_next_some().await returns another occurrence only the `_ => {}` arm
\* matches.
SchedAdvanceOther(k) ==
    /\ spc[k] = "advance"
    /\ spc' = [spc EXCEPT ![k] = "trim"]
    /\ UNCHANGED <<info, objs, evicted, swarm, running, event_queue, connection_stats, pc, sswarm, socc,
                   ncalls, nocc, last, delivered>>

SchedStats(k) ==
    /\ spc[k] = "stats"
    /\ Free("connection_stats")
    /\ connection_stats' = Increment(connection_stats, socc[k].peer_id)
    /\ spc' = [spc EXCEPT ![k] = "push"]
    /\ UNCHANGED <<info, objs, evicted, swarm, running, event_queue, pc, sswarm, socc, ncalls, nocc, last,
                   delivered>>

SchedPush(k) ==
    /\ spc[k] = "push"
    /\ Free("event_queue")
    /\ event_queue' = Push(event_queue, EventOf(socc[k]))
    /\ socc' = [socc EXCEPT ![k] = NoEvent]
    /\ spc' = [spc EXCEPT ![k] = "trim"]
    /\ UNCHANGED <<info, objs, evicted, swarm, running, connection_stats, pc, sswarm, ncalls, nocc, last,
                   delivered>>

SchedTrim(k) ==
    /\ spc[k] = "trim"
    /\ Free("event_queue")
    /\ event_queue' = Trim(event_queue)
    /\ evicted' = evicted \o SubSeq(event_queue, 1, Len(event_queue) - Len(Trim(event_queue)))
    /\ spc' = [spc EXCEPT ![k] = "check"]
    /\ UNCHANGED <<info, objs, swarm, running, connection_stats, pc, sswarm, socc, ncalls,
                   nocc, last, delivered>>

\* Put swarm back when done: *swarm_guard = Some(swarm); the future ends.
SchedPutBack(k) ==
    /\ spc[k] = "putback"
    /\ Free("swarm")
    /\ swarm' = PutBack(sswarm[k][1])
    /\ sswarm' = [sswarm EXCEPT ![k] = None]
    /\ spc' = [spc EXCEPT ![k] = "none"]
    /\ UNCHANGED <<info, objs, evicted, running, event_queue, connection_stats, pc, socc, ncalls, nocc, last,
                   delivered>>

SchedStep(k) ==
    \/ SchedCheck(k)
    \/ SchedAdvance(k)
    \/ SchedAdvanceOther(k)
    \/ SchedStats(k)
    \/ SchedPush(k)
    \/ SchedTrim(k)
    \/ SchedPutBack(k)

Next ==
    \/ \E t \in Threads : StartCheck(t)
    \/ \E t \in Threads : StartTake(t)
    \/ \E t \in Threads : StopEventLoop(t)
    \/ \E t \in Threads : GetEvents(t)
    \/ \E t \in Threads : GetConnectionStats(t)
    \/ \E t \in Threads : IsRunning(t)
    \/ \E t \in Threads, a \in Addrs : StartListening(t, a)
    \/ \E t \in Threads : GetListeners(t)
    \/ \E k \in TaskIds : SchedStep(k)

Spec == Init /\ [][Next]_vars

\* The control surface: start, stop and the scheduler, with the calls that reach
\* the engine (dial, subscribe, unsubscribe, bootstrap) and arguments that do not
\* parse. A dial can fail only where dial is called, so the step of the loop
\* that receives the failure is listed here.
NextCtl ==
    \/ \E t \in Threads : StartCheck(t)
    \/ \E t \in Threads : StartTake(t)
    \/ \E t \in Threads : StopEventLoop(t)
    \/ \E t \in Threads, a \in Addrs \cup BadAddrs : StartListening(t, a)
    \/ \E t \in Threads : GetListeners(t)
    \/ \E t \in Threads, a \in Addrs \cup BadAddrs : Dial(t, a)
    \/ \E t \in Threads, topic \in Topics : SubscribeGossip(t, topic)
    \/ \E t \in Threads, topic \in Topics : UnsubscribeGossip(t, topic)
    \/ \E t \in Threads : Bootstrap(t)
    \/ \E k \in TaskIds : SchedStep(k)
    \/ \E k \in TaskIds : SchedDialError(k)

SpecCtl == Init /\ [][NextCtl]_vars

\* The calls about one peer, with start, stop and the scheduler.
NextPeers ==
    \/ \E t \in Threads : StartCheck(t)
    \/ \E t \in Threads : StartTake(t)
    \/ \E t \in Threads : StopEventLoop(t)
    \/ \E t \in Threads : GetConnectionStats(t)
    \/ \E t \in Threads, p \in Peers \cup BadPeers : BanPeer(t, p)
    \/ \E t \in Threads, p \in Peers \cup BadPeers : UnbanPeer(t, p)
    \/ \E k \in TaskIds : SchedStep(k)

SpecPeers == Init /\ [][NextPeers]_vars

\* A node that listened on an address, ran until the engine reported the
\* listener, and was stopped: the engine is back in the slot with its listener,
\* the NewListenAddr event is in the log. Calls are counted from here on.
InitListening ==
    /\ swarm = Some([NewSwarm EXCEPT !.listeners = Addrs])
    /\ running = FALSE
    /\ event_queue = <<[event_type |-> "NewListenAddr", peer_id |-> NoStr,
                        address |-> CHOOSE a \in Addrs : TRUE, id |-> 0]>>
    /\ connection_stats = <<>>
    /\ pc = [t \in Threads |-> "idle"]
    /\ spc = [k \in TaskIds |-> "none"]
    /\ sswarm = [k \in TaskIds |-> None]
    /\ socc = [k \in TaskIds |-> NoEvent]
    /\ ncalls = 0
    /\ nocc = 0
    /\ last = [op |-> "stop_event_loop", res |-> "Ok"]
    /\ delivered = <<>>
    /\ evicted = <<>>
    /\ Constructed

\* The scheduler loop on a quiet network: every occurrence the engine yields is
\* one the `_ => {}` arm matches.
QuietStep(k) ==
    \/ SchedCheck(k)
    \/ SchedAdvanceOther(k)
    \/ SchedTrim(k)
    \/ SchedPutBack(k)

\* The read-only surface next to the calls that move the engine.
NextInfo ==
    \/ \E t \in Threads : StartCheck(t)
    \/ \E t \in Threads : StartTake(t)
    \/ \E t \in Threads : StopEventLoop(t)
    \/ \E t \in Threads : GetListeners(t)
    \/ \E t \in Threads : GetConnectedPeers(t)
    \/ \E t \in Threads : GetExternalAddresses(t)
    \/ \E t \in Threads, p \in Peers \cup BadPeers : IsConnected(t, p)
    \/ \E t \in Threads : GetNetworkInfo(t)
    \/ \E k \in TaskIds : QuietStep(k)

SpecInfo == InitListening /\ [][NextInfo]_vars

----------------------------------------------------------------------------
\* GossipsubManager (protocols.rs): the message cache.

\* protocols.rs:111  if self.message_cache.len() > 1000
CacheCap == 1000

TopicNames == {"x", "y"}
Payloads == {"m1", "m2"}

\* A call on a manager or storage object returned: its name, its arguments and
\* its result.
Returned(op, arg, res) == last' = [op |-> op, arg |-> arg, res |-> res]

\* The objects other than the one a call is made on.
NotGossipsub == <<autonat, stream_manager, memory_storage, persistent_storage>>
NotAutonat == <<gossipsub, stream_manager, memory_storage, persistent_storage>>
NotStreamManager == <<gossipsub, autonat, memory_storage, persistent_storage>>
NotMemoryStorage == <<gossipsub, autonat, stream_manager, persistent_storage>>
NotPersistentStorage == <<gossipsub, autonat, stream_manager, memory_storage>>

DropNewest(cache) ==
    IF Len(cache) > CacheCap THEN SubSeq(cache, 1, Len(cache) - 1) ELSE cache
\* if self.message_cache.len() > 1000 { self.message_cache.remove(0) }
DropOldest(cache) ==
    IF Len(cache) > CacheCap THEN Tail(cache) ELSE cache

\* cache_message: SystemTime::now() is read as the number of messages cached
\* so far, so that no two entries are equal.
CacheMessage(topic, data) ==
    /\ ncalls < MaxCalls
    /\ ncalls' = ncalls + 1
    /\ gossipsub' = [gossipsub EXCEPT !.message_cache =
          DropOldest(Append(@, [topic |-> topic, data |-> data, timestamp |-> ncalls']))]
    /\ Returned("cache_message", [topic |-> topic, data |-> data], "Unit")
    /\ UNCHANGED <<node, nocc, NotGossipsub>>

\* The entries of one topic, in cache order.
Filter(cache, topic) == SelectSeq(cache, LAMBDA entry : entry.topic = topic)

\* get_cached_messages(topic=None)
GetCachedMessages(filter) ==
    /\ Returned("get_cached_messages", filter,
                IF filter # None THEN Filter(gossipsub.message_cache, filter[1])
                                 ELSE gossipsub.message_cache)
    /\ UNCHANGED <<node, ncalls, nocc, objs>>

ClearMessageCache ==
    /\ gossipsub' = [gossipsub EXCEPT !.message_cache = <<>>]
    /\ Returned("clear_message_cache", None, "Unit")
    /\ UNCHANGED <<node, ncalls, nocc, NotGossipsub>>

\* A manager that has cached one message less than the cap (timestamps counted
\* backwards from 0).
CacheBacklog == [i \in 1..(CacheCap - 1) |->
                   [topic |-> "x", data |-> "m1", timestamp |-> i - (CacheCap - 1)]]

InitCache ==
    /\ swarm = Some(NewSwarm)
    /\ running = FALSE
    /\ event_queue = <<>>
    /\ connection_stats = <<>>
    /\ pc = [t \in Threads |-> "idle"]
    /\ spc = [k \in TaskIds |-> "none"]
    /\ sswarm = [k \in TaskIds |-> None]
    /\ socc = [k \in TaskIds |-> NoEvent]
    /\ ncalls = 0
    /\ nocc = 0
    /\ last = [op |-> NoStr, arg |-> None, res |-> NoStr]
    /\ delivered = <<>>
    /\ evicted = <<>>
    /\ info = [t \in Threads |-> NoInfo]
    /\ gossipsub = [NewGossipsub EXCEPT !.message_cache = CacheBacklog]
    /\ autonat = NewAutonat
    /\ stream_manager = NewStreamManager
    /\ memory_storage = NewMemoryStorage
    /\ persistent_storage = NewPersistentStorage

NextCache ==
    \/ \E topic \in TopicNames, data \in Payloads : CacheMessage(topic, data)
    \/ \E filter \in {None} \cup {Some(topic) : topic \in TopicNames} : GetCachedMessages(filter)
    \/ ClearMessageCache

SpecCache == InitCache /\ [][NextCache]_vars

----------------------------------------------------------------------------
\* GossipsubManager (protocols.rs): the topic registry.

\* HashMap::insert and HashMap::remove.
Insert(map, key, value) ==
    [k \in DOMAIN map \cup {key} |-> IF k = key THEN value ELSE map[k]]
Remove(map, key) == [k \in DOMAIN map \ {key} |-> map[k]]

\* Vec::contains, and Vec::remove at the first position of an element.
Contains(list, x) == \E i \in 1..Len(list) : list[i] = x
Position(list, x) == CHOOSE i \in 1..Len(list) : list[i] = x /\ \A j \in 1..(i - 1) : list[j] # x
RemoveAt(list, i) == SubSeq(list, 1, i - 1) \o SubSeq(list, i + 1, Len(list))

\* gossipsub::IdentTopic::new(topic_name)
IdentTopic(name) == [hash |-> name]

\* create_topic: both maps get an entry for the name, the peer list a new Vec.
Created(manager, name) ==
    [manager EXCEPT !.topics = Insert(@, name, IdentTopic(name)),
                    !.subscribed_peers = Insert(@, name, <<>>)]

CreateTopic(name) ==
    /\ gossipsub' = Created(gossipsub, name)
    /\ Returned("create_topic", name, "Ok")
    /\ UNCHANGED <<node, ncalls, nocc, NotGossipsub>>

GetTopics ==
    /\ Returned("get_topics", None, DOMAIN gossipsub.topics)
    /\ UNCHANGED <<node, ncalls, nocc, objs>>

\* remove_topic, when the name was in topics.
Removed(manager, name) ==
    [manager EXCEPT !.topics = Remove(@, name), !.subscribed_peers = Remove(@, name)]

RemoveTopic(name) ==
    /\ gossipsub' = IF name \in DOMAIN gossipsub.topics THEN Removed(gossipsub, name)
                                                         ELSE gossipsub
    /\ Returned("remove_topic", name, name \in DOMAIN gossipsub.topics)
    /\ UNCHANGED <<node, ncalls, nocc, NotGossipsub>>

PushAgain(peers, peer) == Append(peers, peer)
\* if !peers.contains(&peer_id) { peers.push(peer_id) }
PushNew(peers, peer) == IF Contains(peers, peer) THEN peers ELSE Append(peers, peer)

AddPeerToTopic(name, peer) ==
    /\ IF name \in DOMAIN gossipsub.subscribed_peers
         THEN /\ gossipsub' = [gossipsub EXCEPT !.subscribed_peers[name] = PushNew(@, peer)]
              /\ Returned("add_peer_to_topic", [topic |-> name, peer |-> peer], "Ok")
         ELSE /\ gossipsub' = gossipsub
              /\ Returned("add_peer_to_topic", [topic |-> name, peer |-> peer], "KeyError")
    /\ UNCHANGED <<node, ncalls, nocc, NotGossipsub>>

RemovePeerFromTopic(name, peer) ==
    /\ IF name \in DOMAIN gossipsub.subscribed_peers
            /\ Contains(gossipsub.subscribed_peers[name], peer)
         THEN /\ gossipsub' = [gossipsub EXCEPT !.subscribed_peers[name] =
                                   RemoveAt(@, Position(@, peer))]
              /\ Returned("remove_peer_from_topic", [topic |-> name, peer |-> peer], TRUE)
         ELSE /\ gossipsub' = gossipsub
              /\ Returned("remove_peer_from_topic", [topic |-> name, peer |-> peer], FALSE)
    /\ UNCHANGED <<node, ncalls, nocc, NotGossipsub>>

\* self.subscribed_peers.get(&topic_name).cloned().unwrap_or_default()
TopicPeers(manager, name) ==
    IF name \in DOMAIN manager.subscribed_peers THEN manager.subscribed_peers[name] ELSE <<>>

GetTopicPeers(name) ==
    /\ Returned("get_topic_peers", name, TopicPeers(gossipsub, name))
    /\ UNCHANGED <<node, ncalls, nocc, objs>>

ClearTopics ==
    /\ gossipsub' = [gossipsub EXCEPT !.topics = <<>>, !.subscribed_peers = <<>>]
    /\ Returned("clear_topics", None, "Unit")
    /\ UNCHANGED <<node, ncalls, nocc, NotGossipsub>>

NextTopics ==
    \/ \E name \in TopicNames : CreateTopic(name)
    \/ GetTopics
    \/ \E name \in TopicNames : RemoveTopic(name)
    \/ \E name \in TopicNames, peer \in Peers : AddPeerToTopic(name, peer)
    \/ \E name \in TopicNames, peer \in Peers : RemovePeerFromTopic(name, peer)
    \/ \E name \in TopicNames : GetTopicPeers(name)
    \/ ClearTopics

SpecTopics == Init /\ [][NextTopics]_vars

----------------------------------------------------------------------------
\* StreamManager (protocols.rs).

Protocols == {"/a", "/b"}
Handlers == {"h"}
StreamIds == {"s1", "s2"}

\* self.active_streams.entry(protocol).or_insert_with(Vec::new)
OrInsert(map, key, value) == IF key \in DOMAIN map THEN map ELSE Insert(map, key, value)

RegisterProtocolHandler(protocol, handler) ==
    /\ stream_manager' = [stream_manager EXCEPT
                             !.protocol_handlers = Insert(@, protocol, handler),
                             !.active_streams = OrInsert(@, protocol, <<>>)]
    /\ Returned("register_protocol_handler", protocol, "Unit")
    /\ UNCHANGED <<node, ncalls, nocc, NotStreamManager>>

\* unregister_protocol_handler, when the protocol had a handler.
Unregistered(manager, protocol) ==
    [manager EXCEPT !.protocol_handlers = Remove(@, protocol),
                    !.active_streams = Remove(@, protocol)]

UnregisterProtocolHandler(protocol) ==
    /\ stream_manager' = IF protocol \in DOMAIN stream_manager.protocol_handlers
                            THEN Unregistered(stream_manager, protocol)
                            ELSE stream_manager
    /\ Returned("unregister_protocol_handler", protocol,
                protocol \in DOMAIN stream_manager.protocol_handlers)
    /\ UNCHANGED <<node, ncalls, nocc, NotStreamManager>>

\* if let Some(streams) = self.active_streams.get_mut(&protocol)
Accepts(manager, protocol) == protocol \in DOMAIN manager.active_streams

AddStream(protocol, stream) ==
    /\ IF Accepts(stream_manager, protocol)
         THEN /\ stream_manager' =
                   IF Contains(stream_manager.active_streams[protocol], stream)
                     THEN stream_manager
                     ELSE [stream_manager EXCEPT
                             !.active_streams[protocol] = Append(@, stream),
                             !.stream_stats = Insert(@, stream, [sent |-> 0, received |-> 0])]
              /\ Returned("add_stream", [protocol |-> protocol, stream |-> stream], "Ok")
         ELSE /\ stream_manager' = stream_manager
              /\ Returned("add_stream", [protocol |-> protocol, stream |-> stream], "KeyError")
    /\ UNCHANGED <<node, ncalls, nocc, NotStreamManager>>

RemoveStream(protocol, stream) ==
    /\ IF protocol \in DOMAIN stream_manager.active_streams
            /\ Contains(stream_manager.active_streams[protocol], stream)
         THEN /\ stream_manager' = [stream_manager EXCEPT
                     !.active_streams[protocol] = RemoveAt(@, Position(@, stream)),
                     !.stream_stats = Remove(@, stream)]
              /\ Returned("remove_stream", [protocol |-> protocol, stream |-> stream], TRUE)
         ELSE /\ stream_manager' = stream_manager
              /\ Returned("remove_stream", [protocol |-> protocol, stream |-> stream], FALSE)
    /\ UNCHANGED <<node, ncalls, nocc, NotStreamManager>>

\* update_stream_stats: the counters of a stream that has stats grow (the
\* exploration stops them at MaxBytes).
UpdateStreamStats(stream, bytes_sent, bytes_received) ==
    /\ stream \in DOMAIN stream_manager.stream_stats =>
          /\ stream_manager.stream_stats[stream].sent + bytes_sent <= MaxBytes
          /\ stream_manager.stream_stats[stream].received + bytes_received <= MaxBytes
    /\ stream_manager' =
          IF stream \in DOMAIN stream_manager.stream_stats
            THEN [stream_manager EXCEPT
                    !.stream_stats[stream] = [sent |-> @.sent + bytes_sent,
                                              received |-> @.received + bytes_received]]
            ELSE stream_manager
    /\ Returned("update_stream_stats", stream, "Unit")
    /\ UNCHANGED <<node, ncalls, nocc, NotStreamManager>>

GetProtocolHandlers ==
    /\ Returned("get_protocol_handlers", None, stream_manager.protocol_handlers)
    /\ UNCHANGED <<node, ncalls, nocc, objs>>

\* clear_all_streams: self.active_streams.clear(); self.stream_stats.clear()
ClearedStreams(manager) ==
    [manager EXCEPT !.active_streams = <<>>, !.stream_stats = <<>>]

ClearAllStreams ==
    /\ stream_manager' = ClearedStreams(stream_manager)
    /\ Returned("clear_all_streams", None, "Unit")
    /\ UNCHANGED <<node, ncalls, nocc, NotStreamManager>>

NextStreams ==
    \/ \E protocol \in Protocols, handler \in Handlers :
          RegisterProtocolHandler(protocol, handler)
    \/ \E protocol \in Protocols : UnregisterProtocolHandler(protocol)
    \/ \E protocol \in Protocols, stream \in StreamIds : AddStream(protocol, stream)
    \/ \E protocol \in Protocols, stream \in StreamIds : RemoveStream(protocol, stream)
    \/ \E stream \in StreamIds : UpdateStreamStats(stream, 1, 1)
    \/ GetProtocolHandlers
    \/ ClearAllStreams

SpecStreams == Init /\ [][NextStreams]_vars

----------------------------------------------------------------------------
\* MemoryStorage (storage.rs): a kad MemoryStore and a HashMap of the records
\* with their publisher and ttl.

Keys == {"k1", "k2"}
Values == {"v1", "v2"}
Publishers == {None} \cup {Some(p) : p \in {"p1"} \cup BadPeers}
Ttls == {None, Some(60)}

\* pub_str.parse() of the publisher, when one is given.
PublisherParses(publisher) == publisher = None \/ ParsesPeer(publisher[1])

\* self.store.get(&record_key).map(|record| record.value.clone())
StoredValue(storage, key) ==
    IF key \in DOMAIN storage.store THEN Some(storage.store[key]) ELSE None
\* self.records.contains_key(&key)
HasKey(storage, key) == key \in DOMAIN storage.records
\* self.records.get(&key).cloned()
RecordInfo(storage, key) ==
    IF key \in DOMAIN storage.records THEN Some(storage.records[key]) ELSE None

\* put_record after the publisher parsed and store.put accepted the record.
Put(storage, key, value, publisher, ttl) ==
    [storage EXCEPT !.store = Insert(@, key, value),
                    !.records = Insert(@, key, [value |-> value, publisher |-> publisher,
                                                ttl |-> ttl])]

\* put_record: Err on a publisher that does not parse, Err when MemoryStore::put
\* refuses the record (its limits are the library's), else both views are written.
PutOutcome(storage, key, value, publisher, ttl, refused) ==
    IF ~PublisherParses(publisher) THEN [res |-> "ValueError", storage |-> storage]
    ELSE IF refused THEN [res |-> "RuntimeError", storage |-> storage]
    ELSE [res |-> "Ok", storage |-> Put(storage, key, value, publisher, ttl)]

PutRecord(key, value, publisher, ttl) ==
    /\ \E refused \in BOOLEAN :
         LET out == PutOutcome(memory_storage, key, value, publisher, ttl, refused)
         IN  /\ memory_storage' = out.storage
             /\ Returned("put_record", [key |-> key, value |-> value], out.res)
    /\ UNCHANGED <<node, ncalls, nocc, NotMemoryStorage>>

GetRecord(key) ==
    /\ Returned("get_record", key, StoredValue(memory_storage, key))
    /\ UNCHANGED <<node, ncalls, nocc, objs>>

\* remove_record: self.store.remove(&record_key); self.records.remove(&key)
Removal(storage, key) ==
    [storage EXCEPT !.store = Remove(@, key), !.records = Remove(@, key)]

RemoveRecord(key) ==
    /\ memory_storage' = Removal(memory_storage, key)
    /\ Returned("remove_record", key, HasKey(memory_storage, key))
    /\ UNCHANGED <<node, ncalls, nocc, NotMemoryStorage>>

\* clear: self.records.clear(); the MemoryStore is not touched.
Clear ==
    /\ memory_storage' = [memory_storage EXCEPT !.records = <<>>]
    /\ Returned("clear", None, "Unit")
    /\ UNCHANGED <<node, ncalls, nocc, NotMemoryStorage>>

HasRecord(key) ==
    /\ Returned("has_record", key, HasKey(memory_storage, key))
    /\ UNCHANGED <<node, ncalls, nocc, objs>>

GetRecordInfo(key) ==
    /\ Returned("get_record_info", key, RecordInfo(memory_storage, key))
    /\ UNCHANGED <<node, ncalls, nocc, objs>>

\* update_record: put_record with the publisher and ttl the record has.
UpdateRecord(key, value) ==
    /\ IF HasKey(memory_storage, key)
         THEN \E refused \in BOOLEAN :
                LET out == PutOutcome(memory_storage, key, value,
                                      memory_storage.records[key].publisher,
                                      memory_storage.records[key].ttl, refused)
                IN  /\ memory_storage' = out.storage
                    /\ Returned("update_record", [key |-> key, value |-> value],
                                IF out.res = "Ok" THEN TRUE ELSE out.res)
         ELSE /\ memory_storage' = memory_storage
              /\ Returned("update_record", [key |-> key, value |-> value], FALSE)
    /\ UNCHANGED <<node, ncalls, nocc, NotMemoryStorage>>

\* cleanup_expired: every record that has a ttl is removed with remove_record.
Expired(storage) == {key \in DOMAIN storage.records : storage.records[key].ttl # None}

CleanupExpired ==
    /\ memory_storage' =
          [memory_storage EXCEPT
             !.store = [key \in DOMAIN @ \ Expired(memory_storage) |-> @[key]],
             !.records = [key \in DOMAIN @ \ Expired(memory_storage) |-> @[key]]]
    /\ Returned("cleanup_expired", None, Cardinality(Expired(memory_storage)))
    /\ UNCHANGED <<node, ncalls, nocc, NotMemoryStorage>>

NextMemory ==
    \/ \E key \in Keys, value \in Values, publisher \in Publishers, ttl \in Ttls :
          PutRecord(key, value, publisher, ttl)
    \/ \E key \in Keys : GetRecord(key)
    \/ \E key \in Keys : RemoveRecord(key)
    \/ Clear
    \/ \E key \in Keys : HasRecord(key)
    \/ \E key \in Keys : GetRecordInfo(key)
    \/ \E key \in Keys, value \in Values : UpdateRecord(key, value)
    \/ CleanupExpired

SpecMemory == Init /\ [][NextMemory]_vars

----------------------------------------------------------------------------
\* PersistentStorage (storage.rs): a HashMap of records and the file it is
\* saved to. `file` is what the last save that succeeded wrote, None before any.

\* save_to_file: serde_json::to_string and fs::write, either of which may fail;
\* a save that fails leaves the file as the last good save wrote it.
Saved(storage, ok) == IF ok THEN [storage EXCEPT !.file = Some(storage.records)] ELSE storage
SaveResult(ok, res) == IF ok THEN res ELSE "SaveError"

\* put_record: self.records.insert(..); self.save_to_file()
PersistPut(storage, key, value, publisher, ttl, ok) ==
    Saved([storage EXCEPT !.records = Insert(@, key, [value |-> value,
                                                      publisher |-> publisher,
                                                      ttl |-> ttl])], ok)

PersistPutRecord(key, value, publisher, ttl) ==
    /\ \E ok \in BOOLEAN :
         /\ persistent_storage' = PersistPut(persistent_storage, key, value, publisher, ttl, ok)
         /\ Returned("put_record", [key |-> key, value |-> value], SaveResult(ok, "Ok"))
    /\ UNCHANGED <<node, ncalls, nocc, NotPersistentStorage>>

PersistGetRecord(key) ==
    /\ Returned("get_record", key,
                IF HasKey(persistent_storage, key)
                  THEN Some(persistent_storage.records[key].value) ELSE None)
    /\ UNCHANGED <<node, ncalls, nocc, objs>>

\* remove_record: the save is attempted only when a record was removed.
PersistRemoveRecord(key) ==
    /\ IF HasKey(persistent_storage, key)
         THEN \E ok \in BOOLEAN :
                /\ persistent_storage' =
                      Saved([persistent_storage EXCEPT !.records = Remove(@, key)], ok)
                /\ Returned("remove_record", key, SaveResult(ok, TRUE))
         ELSE /\ persistent_storage' = persistent_storage
              /\ Returned("remove_record", key, FALSE)
    /\ UNCHANGED <<node, ncalls, nocc, NotPersistentStorage>>

\* clear: self.records.clear(); self.save_to_file()
PersistClear ==
    /\ \E ok \in BOOLEAN :
         /\ persistent_storage' = Saved([persistent_storage EXCEPT !.records = <<>>], ok)
         /\ Returned("clear", None, SaveResult(ok, "Ok"))
    /\ UNCHANGED <<node, ncalls, nocc, NotPersistentStorage>>

\* update_record: put_record with the publisher and ttl the record has.
PersistUpdateRecord(key, value) ==
    /\ IF HasKey(persistent_storage, key)
         THEN \E ok \in BOOLEAN :
                /\ persistent_storage' =
                      PersistPut(persistent_storage, key, value,
                                 persistent_storage.records[key].publisher,
                                 persistent_storage.records[key].ttl, ok)
                /\ Returned("update_record", [key |-> key, value |-> value],
                            SaveResult(ok, TRUE))
         ELSE /\ persistent_storage' = persistent_storage
              /\ Returned("update_record", [key |-> key, value |-> value], FALSE)
    /\ UNCHANGED <<node, ncalls, nocc, NotPersistentStorage>>

\* cleanup_expired: `now > *ttl_secs` with now the seconds since the epoch, so
\* every record that has one of the ttls of Ttls is expired; the save is
\* attempted only when a record was removed.
PersistCleanupExpired ==
    /\ IF Expired(persistent_storage) # {}
         THEN \E ok \in BOOLEAN :
                /\ persistent_storage' =
                      Saved([persistent_storage EXCEPT !.records =
                               [key \in DOMAIN @ \ Expired(persistent_storage) |-> @[key]]], ok)
                /\ Returned("cleanup_expired", None,
                            SaveResult(ok, Cardinality(Expired(persistent_storage))))
         ELSE /\ persistent_storage' = persistent_storage
              /\ Returned("cleanup_expired", None, 0)
    /\ UNCHANGED <<node, ncalls, nocc, NotPersistentStorage>>

NextPersistent ==
    \/ \E key \in Keys, value \in Values, ttl \in Ttls :
          PersistPutRecord(key, value, None, ttl)
    \/ \E key \in Keys : PersistGetRecord(key)
    \/ \E key \in Keys : PersistRemoveRecord(key)
    \/ PersistClear
    \/ \E key \in Keys, value \in Values : PersistUpdateRecord(key, value)
    \/ PersistCleanupExpired

SpecPersistent == Init /\ [][NextPersistent]_vars

----------------------------------------------------------------------------
\* AutonatManager (discovery.rs): the probe history.

\* discovery.rs:211  if self.probe_history.len() > 100
ProbeCap == 100

ProbeResults == {"public", "private"}

DropNewestProbe(history) ==
    IF Len(history) > ProbeCap THEN SubSeq(history, 1, Len(history) - 1) ELSE history
\* if self.probe_history.len() > 100 { self.probe_history.remove(0) }
DropOldestProbe(history) ==
    IF Len(history) > ProbeCap THEN Tail(history) ELSE history

RecordProbeResult(result) ==
    /\ ncalls < MaxCalls
    /\ ncalls' = ncalls + 1
    /\ autonat' = [autonat EXCEPT !.last_probe_result = Some(result),
                                  !.probe_history = DropOldestProbe(Append(@, result))]
    /\ Returned("record_probe_result", result, "Unit")
    /\ UNCHANGED <<node, nocc, NotAutonat>>

GetLastProbeResult ==
    /\ Returned("get_last_probe_result", None, autonat.last_probe_result)
    /\ UNCHANGED <<node, ncalls, nocc, objs>>

GetProbeHistory ==
    /\ Returned("get_probe_history", None, autonat.probe_history)
    /\ UNCHANGED <<node, ncalls, nocc, objs>>

\* clear_probe_history: self.probe_history.clear(); self.last_probe_result = None
ClearedProbes(manager) ==
    [manager EXCEPT !.probe_history = <<>>, !.last_probe_result = None]

ClearProbeHistory ==
    /\ autonat' = ClearedProbes(autonat)
    /\ Returned("clear_probe_history", None, "Unit")
    /\ UNCHANGED <<node, ncalls, nocc, NotAutonat>>

\* A manager that has recorded one probe less than the cap.
ProbeBacklog == [i \in 1..(ProbeCap - 1) |-> IF i % 2 = 0 THEN "public" ELSE "private"]

InitProbes ==
    /\ swarm = Some(NewSwarm)
    /\ running = FALSE
    /\ event_queue = <<>>
    /\ connection_stats = <<>>
    /\ pc = [t \in Threads |-> "idle"]
    /\ spc = [k \in TaskIds |-> "none"]
    /\ sswarm = [k \in TaskIds |-> None]
    /\ socc = [k \in TaskIds |-> NoEvent]
    /\ ncalls = 0
    /\ nocc = 0
    /\ last = [op |-> NoStr, arg |-> None, res |-> NoStr]
    /\ delivered = <<>>
    /\ evicted = <<>>
    /\ info = [t \in Threads |-> NoInfo]
    /\ gossipsub = NewGossipsub
    /\ autonat = [NewAutonat EXCEPT !.probe_history = ProbeBacklog,
                                    !.last_probe_result = Some(ProbeBacklog[ProbeCap - 1])]
    /\ stream_manager = NewStreamManager
    /\ memory_storage = NewMemoryStorage
    /\ persistent_storage = NewPersistentStorage

NextProbes ==
    \/ \E result \in ProbeResults : RecordProbeResult(result)
    \/ GetLastProbeResult
    \/ GetProbeHistory
    \/ ClearProbeHistory

SpecProbes == InitProbes /\ [][NextProbes]_vars

----------------------------------------------------------------------------
\* A node that ran before, was stopped, and was never drained: the log is one
\* event short of the cap (events numbered backwards from 0), the engine is back
\* in the slot, and the two calls made so far were a start and a stop.
Backlog == [i \in 1..(QueueCap - 1) |->
              [event_type |-> "BehaviourEvent", peer_id |-> NoStr, address |-> NoStr,
               id |-> i - (QueueCap - 1)]]

InitCap ==
    /\ swarm = Some(NewSwarm)
    /\ running = FALSE
    /\ event_queue = Backlog
    /\ connection_stats = <<>>
    /\ pc = [t \in Threads |-> "idle"]
    /\ spc = [k \in TaskIds |-> "none"]
    /\ sswarm = [k \in TaskIds |-> None]
    /\ socc = [k \in TaskIds |-> NoEvent]
    /\ ncalls = 2
    /\ nocc = 0
    /\ last = [op |-> "stop_event_loop", res |-> "Ok"]
    /\ delivered = <<>>
    /\ evicted = <<>>
    /\ Constructed

\* The operations that read or write the event log or decide whether the
\* scheduler runs; the others leave the log and the scheduler alone.
NextCap ==
    \/ \E t \in Threads : StartCheck(t)
    \/ \E t \in Threads : StartTake(t)
    \/ \E t \in Threads : StopEventLoop(t)
    \/ \E t \in Threads : GetEvents(t)
    \/ \E k \in TaskIds : SchedStep(k)

SpecCap == InitCap /\ [][NextCap]_vars

\* A node whose loop was started and on which stop_event_loop has just returned:
\* the flag is false, the task (the runtime's last identifier, so that a task
\* spawned later gets another one) holds the engine and is somewhere in its loop
\* with no occurrence in hand, and nothing was yielded yet.
InitStopped ==
    /\ swarm = None
    /\ running = FALSE
    /\ event_queue = <<>>
    /\ connection_stats = <<>>
    /\ pc = [t \in Threads |-> "idle"]
    /\ \E pos \in {"check", "advance", "trim"} :
         spc = [k \in TaskIds |-> IF k = MaxTasks THEN pos ELSE "none"]
    /\ sswarm = [k \in TaskIds |-> IF k = MaxTasks THEN Some(NewSwarm) ELSE None]
    /\ socc = [k \in TaskIds |-> NoEvent]
    /\ ncalls = 2
    /\ nocc = 0
    /\ last = [op |-> "stop_event_loop", res |-> "Ok"]
    /\ delivered = <<>>
    /\ evicted = <<>>
    /\ Constructed

SpecStop == InitStopped /\ [][NextCap]_vars

\* The runtime runs a spawned task, a Mutex is granted to a waiting task, and the
\* engine keeps yielding occurrences.
FairSpec ==
    /\ Spec
    /\ \A k \in TaskIds : WF_vars(SchedStep(k))
    /\ \A t \in Threads : WF_vars(StartTake(t))

\* Scenario A: the node listens, runs and stops its scheduler and reads its log.
NextListen ==
    \/ \E t \in Threads : StartCheck(t)
    \/ \E t \in Threads : StartTake(t)
    \/ \E t \in Threads : StopEventLoop(t)
    \/ \E t \in Threads : GetEvents(t)
    \/ \E t \in Threads, a \in Addrs : StartListening(t, a)
    \/ \E k \in TaskIds : SchedStep(k)

\* Scenario C, seen from either node: the node dials a peer that can be reached
\* (no dial fails), runs and stops its scheduler and reads its log and its stats.
NextDial ==
    \/ \E t \in Threads : StartCheck(t)
    \/ \E t \in Threads : StartTake(t)
    \/ \E t \in Threads : StopEventLoop(t)
    \/ \E t \in Threads : GetEvents(t)
    \/ \E t \in Threads : GetConnectionStats(t)
    \/ \E t \in Threads, a \in Addrs : Dial(t, a)
    \/ \E k \in TaskIds : SchedStep(k)

\* select_next_some returned an occurrence the engine owed.
YieldOwed(k) == SchedAdvance(k) /\ sswarm'[k] # sswarm[k]

\* As FairSpec, and an engine that is polled again and again reports the
\* listeners it opened and the connections its dials made.
FairSpecListen ==
    /\ Init /\ [][NextListen]_vars
    /\ \A k \in TaskIds : WF_vars(SchedStep(k))
    /\ \A t \in Threads : WF_vars(StartTake(t))
    /\ \A k \in TaskIds : SF_vars(YieldOwed(k))

FairSpecDial ==
    /\ Init /\ [][NextDial]_vars
    /\ \A k \in TaskIds : WF_vars(SchedStep(k))
    /\ \A t \in Threads : WF_vars(StartTake(t))
    /\ \A k \in TaskIds : SF_vars(YieldOwed(k))

----------------------------------------------------------------------------
\* Properties of the run controller.

\* A step in which a call of `op` was begun and returned at once.
CallOf(op) == ncalls' = ncalls + 1 /\ pc' = pc /\ last'.op = op
\* A step in which start_event_loop returned from its second critical section.
StartTaken == \E t \in Threads : pc[t] = "start_take" /\ pc'[t] = "idle"
\* A step in which start_event_loop passed the running check.
StartPassed == \E t \in Threads : pc[t] = "idle" /\ pc'[t] = "start_take"
Looping(k) == spc[k] \in {"check", "advance", "stats", "push", "trim"}
OwnerCount == (IF swarm # None THEN 1 ELSE 0) + Cardinality(Holders)

\* C1: at every moment at most one scheduler task exists and at most one holds
\* the engine, whatever start_event_loop and stop_event_loop calls the caller
\* threads interleave.
C1_OneScheduler == Cardinality(ActiveTasks) <= 1 /\ Cardinality(Holders) <= 1

\* start, stop, start: the second start found the slot empty while the first
\* loop had not yet seen the stop.
C1_Witness ==
    /\ \E k \in TaskIds : Looping(k)
    /\ last.op = "start_event_loop" /\ last.res = "NoSwarm"

\* C2: the engine is in exactly one place, the slot or one scheduler task, and a
\* control-surface call made while a task holds it neither changes nor reads it.
C2_SingleOwner ==
    /\ [](OwnerCount = 1)
    /\ [][(Holders # {} /\ (CallOf("start_listening") \/ CallOf("get_listeners")))
            => /\ swarm' = swarm /\ sswarm' = sswarm
               /\ (last'.op = "get_listeners" => last'.res = {})]_vars

\* A listen request reached the engine in the slot, the engine then moved to a
\* task, and a control call was made while the task held it.
C2_Witness ==
    /\ \E k \in Holders : sswarm[k][1].listen_req # {}
    /\ swarm = None
    /\ last.op = "start_listening"

\* C3: outside a start_event_loop call in progress, the running flag is true
\* exactly when a scheduler task holds the engine.
C3_RunningIffScheduler == InStart = {} => (running <=> Holders # {})

\* C4: start_event_loop with the flag already true returns the already-running
\* error and changes nothing; it never goes on to the slot. The flag, once set,
\* stays set until a stop_event_loop, so the second of two starts fails.
C4_AlreadyRunning ==
    [][/\ (running => ~StartPassed)
       /\ (running /\ CallOf("start_event_loop")
             => /\ last'.res = "AlreadyRunning"
                /\ UNCHANGED <<running, swarm, spc, sswarm, event_queue, connection_stats>>)
       /\ (running /\ ~running' => CallOf("stop_event_loop"))]_vars

C4_Witness ==
    /\ last.op = "start_event_loop" /\ last.res = "AlreadyRunning"
    /\ ActiveTasks # {}

\* C5: stop_event_loop always returns Ok, leaves the flag false, and touches
\* nothing else; with the flag already false the whole node state is unchanged.
C5_StopIdempotent ==
    [][CallOf("stop_event_loop")
         => /\ last'.res = "Ok"
            /\ ~running'
            /\ (~running => running' = running)
            /\ UNCHANGED <<swarm, event_queue, connection_stats, spc, sswarm, socc>>]_vars

\* The first call ever made is a stop: the flag was already false.
C5_Witness == last.op = "stop_event_loop" /\ ncalls = 1 /\ ~running

\* C6: once stop_event_loop was called while a scheduler task holds the engine,
\* the task eventually exits and the engine is back in the slot.
C6_StopEffective ==
    (~running /\ Holders # {} /\ last.op = "stop_event_loop") ~> (swarm # None)

\* C7: when the scheduler task ends, the engine is in the slot and the running
\* flag is false.
C7_ExitIdle ==
    [][\A k \in TaskIds : (spc[k] = "putback" /\ spc'[k] = "none")
                            => (swarm' # None /\ ~running')]_vars

\* C8: with the engine back in the slot and no scheduler task left, a
\* start_event_loop is not rejected, the task it spawns holds the engine that was
\* in the slot, and a start that finds the slot empty spawns nothing.
C8_Restart ==
    [][/\ (swarm # None /\ ActiveTasks = {} /\ InStart = {} /\ CallOf("start_event_loop")
             => last'.res # "AlreadyRunning")
       /\ (StartTaken /\ swarm # None
             => /\ last'.res = "Ok" /\ swarm' = None
                /\ \E k \in TaskIds : ~Active(k) /\ spc'[k] = "check" /\ sswarm'[k] = swarm)
       /\ (StartTaken /\ swarm = None
             => last'.res = "NoSwarm" /\ spc' = spc /\ sswarm' = sswarm)]_vars

Ids(seq) == [i \in 1..Len(seq) |-> seq[i].id]
Increasing(ns) == \A i, j \in 1..Len(ns) : i < j => ns[i] < ns[j]
Range(seq) == {seq[i] : i \in 1..Len(seq)}
InFlight == {socc[k].id : k \in TaskIds} \ {0}

\* C9: get_events returns the whole log in order and leaves it empty, in one
\* step; what was returned so far followed by what is in the log never holds an
\* event twice and keeps the order of occurrence; and every event yielded so far
\* is in a returned list, in the log, or still with the scheduler.
C9_DrainOnce ==
    /\ [](Increasing(Ids(delivered \o event_queue)))
    /\ [](Range(Ids(delivered \o event_queue)) \cup InFlight = 1..nocc)
    /\ [][CallOf("get_events")
            => /\ last'.res = event_queue
               /\ event_queue' = <<>>
               /\ delivered' = delivered \o event_queue]_vars

\* A get_events returned events, and the next one, with no push in between,
\* returned the empty list.
C9_Witness ==
    /\ last.op = "get_events" /\ last.res = <<>>
    /\ Len(delivered) >= 1
    /\ event_queue = <<>>

\* C10: the log never holds more than 1000 events between two critical
\* sections, and get_events never returns more than 1000.
C10_Cap ==
    /\ Len(event_queue) <= QueueCap
    /\ (last.op = "get_events" => Len(last.res) <= QueueCap)

----------------------------------------------------------------------------
\* Properties of the event log and the stats.

\* A step in which scheduler task k ran its trim critical section.
TrimStep(k) == spc[k] = "trim" /\ spc'[k] = "check"

\* C11: a trim that finds the log over the cap removes exactly its 500 oldest
\* events in that one step; what is left is the newer part of the log, unchanged
\* and in order, and its length is between 500 and 1000.
C11_TrimOldestHalf ==
    [][\A k \in TaskIds :
         (TrimStep(k) /\ Len(event_queue) > QueueCap)
           => /\ event_queue' = SubSeq(event_queue, DrainCount + 1, Len(event_queue))
              /\ evicted' = evicted \o SubSeq(event_queue, 1, DrainCount)
              /\ Len(event_queue') >= DrainCount
              /\ Len(event_queue') <= QueueCap]_vars

\* The log went over the cap and was trimmed: 500 events are gone and the log
\* starts with the event that followed them.
C11_Witness ==
    /\ Len(evicted) = DrainCount
    /\ Len(event_queue) = QueueCap + 1 - DrainCount
    /\ event_queue[1].id = evicted[DrainCount].id + 1

\* C12: the lists returned by get_events, one after the other, followed by the
\* log, hold the appended events in the order of occurrence, none twice; an event
\* that was appended and is in none of them was removed by a trim.
\* The number of the oldest event of the backlog.
FirstId == 2 - QueueCap

C12_OccurrenceOrder ==
    LET got == delivered \o event_queue
        gone == {evicted[i].id : i \in 1..Len(evicted)}
    IN  /\ \A i \in 1..(Len(got) - 1) : got[i].id < got[i + 1].id
        /\ \A i \in 1..(Len(evicted) - 1) : evicted[i].id < evicted[i + 1].id
        /\ \A i \in 1..Len(got) :
              got[i].id \in FirstId .. nocc /\ got[i].id \notin gone
        /\ \A i \in 1..Len(evicted) : evicted[i].id \in FirstId .. nocc
        /\ Len(got) + Len(evicted) + Cardinality(InFlight) = nocc - FirstId + 1

\* A get_events after an eviction: the returned events skip the evicted ones.
C12_Witness ==
    /\ last.op = "get_events"
    /\ Len(evicted) = DrainCount
    /\ Len(delivered) >= 1
    /\ delivered[1].id > evicted[DrainCount].id

\* The connection-established occurrences for peer p whose stats step is done:
\* their events are in a returned list, in the log, evicted, or about to be pushed.
Established(e, p) == e.event_type = "ConnectionEstablished" /\ e.peer_id = p
Processed(p) ==
    LET all == delivered \o event_queue \o evicted
    IN  Cardinality({i \in 1..Len(all) : Established(all[i], p)})
        + Cardinality({k \in TaskIds : spc[k] = "push" /\ Established(socc[k], p)})

\* A step in which scheduler task k ran its stats critical section.
StatsStep(k) == spc[k] = "stats" /\ spc'[k] = "push"

\* C13: the count of a peer equals the number of connection-established
\* occurrences the scheduler has processed for it, a peer with none has no entry,
\* and the map changes only in the stats step of such an occurrence, by one, for
\* that peer alone.
C13_CountEqualsOccurrences ==
    /\ [](\A p \in Peers :
            IF Processed(p) = 0
              THEN p \notin DOMAIN connection_stats
              ELSE p \in DOMAIN connection_stats /\ connection_stats[p] = Processed(p))
    /\ [][connection_stats' # connection_stats
            => \E k \in TaskIds :
                 /\ StatsStep(k)
                 /\ socc[k].event_type = "ConnectionEstablished"
                 /\ DOMAIN connection_stats' = DOMAIN connection_stats \cup {socc[k].peer_id}
                 /\ \A q \in DOMAIN connection_stats' :
                      connection_stats'[q] =
                        (IF q \in DOMAIN connection_stats THEN connection_stats[q] ELSE 0)
                        + (IF q = socc[k].peer_id THEN 1 ELSE 0)]_vars

\* Two connections from one peer were counted, none from the other, and a
\* caller read the snapshot.
C13_Witness ==
    /\ last.op = "get_connection_stats"
    /\ \E p \in Peers : /\ DOMAIN last.res = {p}
                          /\ last.res[p] = 2
                          /\ Processed(p) = 2

\* C14: no step removes a peer's entry or lowers its count.
C14_CountsMonotonic ==
    [][\A p \in DOMAIN connection_stats :
         /\ p \in DOMAIN connection_stats'
         /\ connection_stats'[p] >= connection_stats[p]]_vars

\* A count survived a stop of the loop and a drain of the log.
C14_Witness ==
    /\ DOMAIN connection_stats # {}
    /\ ~running /\ ActiveTasks = {}
    /\ last.op = "get_events"
    /\ \E i \in 1..Len(delivered) : delivered[i].event_type = "ConnectionEstablished"

----------------------------------------------------------------------------
\* Properties of the control calls.

\* Everything of the node but the record of the last call and the call count.
NodeState == <<swarm, running, event_queue, connection_stats, spc, sswarm, socc, nocc,
               evicted, delivered>>

\* The control calls of the model that change the engine, given a valid argument.
MutatingCalls == {"start_listening", "dial", "subscribe_gossip", "unsubscribe_gossip"}
MutatingReturn == \E op \in MutatingCalls : CallOf(op) /\ last'.arg \notin BadAddrs

\* C15: while a scheduler task owns the engine, a mutating control call either
\* fails or has an effect (at once or queued); none returns ok having changed
\* nothing.
C15_BusyOrQueued ==
    [][(MutatingReturn /\ Holders # {} /\ last'.res = "Ok") => NodeState' # NodeState]_vars

EngineAddrs(slot) ==
    IF slot = None THEN {} ELSE slot[1].listen_req \cup slot[1].listeners \cup slot[1].dialing
KnownAddrs ==
    EngineAddrs(swarm) \cup UNION {EngineAddrs(sswarm[k]) : k \in TaskIds}
        \cup {event_queue[i].address : i \in 1..Len(event_queue)}
        \cup {socc[k].address : k \in TaskIds}

C18_Bootstrap ==
    [][CallOf("bootstrap") =>
         /\ last'.res = "Ok" => (swarm # None /\ swarm' # None /\ swarm'[1].bootstrapped)
         /\ swarm = None => (last'.res = "SwarmNotInitialized" /\ UNCHANGED NodeState)]_vars

\* bootstrap succeeded on the idle node, and a later bootstrap, made while the
\* scheduler task held the engine, was refused.
C18_Witness ==
    /\ last.op = "bootstrap" /\ last.res = "SwarmNotInitialized"
    /\ \E k \in TaskIds : sswarm[k] # None /\ sswarm[k][1].bootstrapped

\* C19: on an idle node, subscribe_gossip on a topic that is subscribed and
\* unsubscribe_gossip on a topic that is not both return ok and leave the
\* subscriptions as they are.
C19_IdempotentSubscriptions ==
    [][(swarm # None /\ ActiveTasks = {}) =>
         /\ (CallOf("subscribe_gossip") /\ last'.arg \in swarm[1].subs)
               => (last'.res = "Ok" /\ swarm' = swarm)
         /\ (CallOf("unsubscribe_gossip") /\ last'.arg \notin swarm[1].subs)
               => (last'.res = "Ok" /\ swarm' = swarm)]_vars

\* C20: start_event_loop that passed the running check and finds the slot empty
\* fails with the no-engine error and spawns no task.
C20_StartWithoutEngine ==
    [][(StartTaken /\ swarm = None) =>
         /\ last' = [op |-> "start_event_loop", res |-> "NoSwarm"]
         /\ UNCHANGED <<spc, sswarm>>
         /\ swarm' = None]_vars

\* A start failed for want of the engine while the task of an earlier start still
\* held it.
C20_Witness ==
    /\ last.op = "start_event_loop" /\ last.res = "NoSwarm"
    /\ Cardinality(ActiveTasks) = 1 /\ Cardinality(Holders) = 1

----------------------------------------------------------------------------
\* The scenarios.

\* Every event that was put in the log, in the order of the log.
Recorded == evicted \o delivered \o event_queue
\* The events of one kind about one peer or address.
EventsOf(seq, kind, who) ==
    {i \in 1..Len(seq) : seq[i].event_type = kind /\ who \in {seq[i].peer_id, seq[i].address}}
\* C21: on a node that was asked to listen on an address and whose scheduler
\* is in its loop with the running flag set, a NewListenAddr event for the address is eventually in the log for
\* get_events to return (unless the scheduler is stopped), and there is never a
\* second one for the address.
C21_ListenScenario ==
    /\ [](\A a \in Addrs :
            Cardinality(EventsOf(Recorded, "NewListenAddr", a))
              + Cardinality({k \in TaskIds : socc[k].event_type = "NewListenAddr"
                                              /\ socc[k].address = a}) <= 1)
    /\ \A a \in Addrs :
         (running /\ \E k \in TaskIds : Looping(k) /\ a \in sswarm[k][1].listen_req)
            ~> (~running \/ EventsOf(delivered \o event_queue, "NewListenAddr", a) # {})

\* start_listening and start_event_loop returned ok and a later get_events
\* returned the NewListenAddr event while the scheduler was running.
C21_Witness ==
    /\ last.op = "get_events"
    /\ Cardinality(EventsOf(last.res, "NewListenAddr", "a1")) = 1
    /\ running /\ Holders # {}

\* The peer a dial of address a connects to.
PeerAt(a) == CHOOSE p \in Peers : RemoteAddress(p) = a

----------------------------------------------------------------------------
\* Banning, the two steps of start, cancellation and the occurrences the loop
\* does not classify.

\* C23: while the call that returned last is a successful ban_peer(p), so that
\* no unban_peer(p) followed it, the engine yields no ConnectionEstablished for p
\* to the loop, which would count it and put it in the log.
C23_BanDenies ==
    [][(last.op = "ban_peer" /\ last.res = "Ok")
          => \A k \in TaskIds : ~(spc[k] = "advance" /\ Established(socc'[k], last.arg))]_vars

\* C24: start_event_loop sets the flag and empties the slot in one step: while a
\* thread is between the two, no call of another thread begins or returns.
C24_AtomicStart ==
    [][InStart # {} => ncalls' = ncalls]_vars

\* An advance of task k completed: select_next_some returned.
AdvanceStep(k) == spc[k] = "advance" /\ spc'[k] # "advance"

\* C28: every occurrence select_next_some returns becomes an event: the loop
\* leaves no advance without an event to push.
C28_EveryOccurrenceRecorded ==
    [][\A k \in TaskIds : AdvanceStep(k) => socc'[k] # NoEvent]_vars

\* The engine reported the failure of a dial to task k.
DialFailed(k) ==
    /\ AdvanceStep(k)
    /\ sswarm'[k][1].dialing # sswarm[k][1].dialing
    /\ socc'[k].event_type # "ConnectionEstablished"

\* C29: a dial that was accepted and fails reaches the log as a ConnectionClosed
\* event, and the loop goes on: it leaves only on a check that reads the flag
\* false.
C29_DialFailureSurfaces ==
    [][\A k \in TaskIds :
         /\ DialFailed(k) => socc'[k].event_type = "ConnectionClosed"
         /\ (Looping(k) /\ spc'[k] = "putback") => (spc[k] = "check" /\ ~running)]_vars

\* C30: a start_event_loop that returns an error leaves the node as it was
\* before the call. The call that fails for want of the engine passed the check,
\* so the flag was false when it began and only a start can set it.
C30_FailedStartNoChange ==
    [][/\ (CallOf("start_event_loop") /\ last'.res = "AlreadyRunning")
             => UNCHANGED NodeState
       /\ (StartTaken /\ last'.res = "NoSwarm")
             => (~running' /\ UNCHANGED <<swarm, event_queue, connection_stats>>)]_vars

\* The task on which stop_event_loop was called (SpecStop).
Stopped == MaxTasks

\* C25: after stop_event_loop was called on a running loop, the loop appends at
\* most one more occurrence before it exits: as long as the task is there, at
\* most one occurrence was yielded since the call.
C25_OneAfterStop == Active(Stopped) => nocc <= 1

\* C26: the occurrence an advance returns after stop_event_loop was called is
\* still counted and appended: the loop never reaches its check, or its exit,
\* with an occurrence in hand, a push appends the occurrence whatever the flag
\* says, and every occurrence yielded is in the log or about to be pushed.
C26_NoEventDropped ==
    /\ [](\A k \in TaskIds : spc[k] \in {"check", "putback", "none"} => socc[k] = NoEvent)
    /\ [](Len(Recorded) + Cardinality(InFlight) = nocc)
    /\ [](\A p \in Peers :
            Cardinality(EventsOf(Recorded, "ConnectionEstablished", p))
               <= (IF p \in DOMAIN connection_stats THEN connection_stats[p] ELSE 0))
    /\ [][\A k \in TaskIds : (spc[k] = "push" /\ spc'[k] # "push")
             => event_queue' = Append(event_queue, EventOf(socc[k]))]_vars

\* The advance that was in flight when stop_event_loop was called returned a
\* connection, no call was made since, and the task is about to exit with the
\* connection counted and its event in the log.
C26_Witness ==
    /\ ncalls = 2 /\ ~running
    /\ spc[Stopped] = "putback"
    /\ nocc = 1 /\ Len(event_queue) = 1
    /\ event_queue[1].event_type = "ConnectionEstablished"
    /\ event_queue[1].peer_id \in DOMAIN connection_stats

----------------------------------------------------------------------------
\* Lock discipline.

----------------------------------------------------------------------------
\* C31: while a scheduler task holds the engine, get_connected_peers,
\* get_listeners and get_external_addresses return the empty list, is_connected
\* returns false for every peer, and every count get_network_info reads is 0,
\* whatever the engine the task holds has.
InfoRead(t, from, to) == pc[t] = from /\ pc'[t] = to
C31_ReadersSeeNothing ==
    [][Holders # {} =>
         /\ (CallOf("get_connected_peers") \/ CallOf("get_listeners")
                \/ CallOf("get_external_addresses")) => last'.res = {}
         /\ (CallOf("is_connected") /\ ParsesPeer(last'.arg)) => last'.res = FALSE
         /\ \A t \in Threads :
              /\ InfoRead(t, "idle", "info_peers") => info'[t].listeners = 0
              /\ InfoRead(t, "info_peers", "info_external") => info'[t].connected_peers = 0
              /\ InfoRead(t, "info_external", "info_running")
                    => info'[t].external_addresses = 0]_vars
\* The engine has had a listener all along, and get_listeners returned the
\* empty list from the slot a running task had emptied.
C31_Witness ==
    /\ last.op = "get_listeners" /\ last.res = {}
    /\ \E k \in TaskIds : sswarm[k] # None /\ sswarm[k][1].listeners # {}

----------------------------------------------------------------------------
\* C32: for every peer p, connection_stats[p] is at least the number of
\* ConnectionEstablished events for p appended to the log so far and exceeds it
\* by at most 1; get_connection_stats, called after get_events returned k such
\* events, reads at least k.
CountOf(stats, p) == IF p \in DOMAIN stats THEN stats[p] ELSE 0
Appended(p) == Cardinality(EventsOf(Recorded, "ConnectionEstablished", p))
C32_StatsLeadLog ==
    /\ [](\A p \in Peers : CountOf(connection_stats, p) - Appended(p) \in {0, 1})
    /\ [][CallOf("get_connection_stats") =>
            \A p \in Peers :
               CountOf(last'.res, p) >= Cardinality(EventsOf(delivered, "ConnectionEstablished", p))]_vars
\* The count of a peer is one ahead of the log, which already has an event of
\* that peer, and get_connection_stats has read the count of a peer whose event
\* was drained.
C32_Witness ==
    /\ \E p \in Peers : Appended(p) = 1 /\ CountOf(connection_stats, p) = 2
    /\ last.op = "get_connection_stats"
    /\ \E p \in Peers : /\ Cardinality(EventsOf(delivered, "ConnectionEstablished", p)) = 1
                         /\ CountOf(last.res, p) >= 1

----------------------------------------------------------------------------
\* A step in which a call of op on a manager or storage object returned.
Did(op) == last'.op = op /\ vars' # vars

\* C33: the message cache is a bounded FIFO: it never holds more than 1000
\* entries; cache_message leaves the last min(n + 1, 1000) of the n entries it
\* found followed by the new one, clear_message_cache leaves none, nothing else
\* changes it, and get_cached_messages(None) returns it as it is, so that it
\* always holds the last min(n, 1000) messages cached since the last clear, in
\* insertion order.
C33_CacheBoundedFifo ==
    /\ [](Len(gossipsub.message_cache) <= CacheCap)
    /\ [][LET old == gossipsub.message_cache
              new == gossipsub'.message_cache
          IN  /\ Did("cache_message") =>
                   /\ Len(new) = IF Len(old) < CacheCap THEN Len(old) + 1 ELSE CacheCap
                   /\ new[Len(new)].topic = last'.arg.topic
                   /\ new[Len(new)].data = last'.arg.data
                   /\ SubSeq(new, 1, Len(new) - 1)
                        = SubSeq(old, Len(old) - Len(new) + 2, Len(old))
              /\ Did("clear_message_cache") => new = <<>>
              /\ Did("get_cached_messages") =>
                   /\ new = old
                   /\ last'.arg = None => last'.res = old]_vars
\* The cache is full, its oldest entry is a message cached after the one the
\* manager began with, and get_cached_messages(None) has returned all of it.
C33_Witness ==
    /\ Len(gossipsub.message_cache) = CacheCap
    /\ gossipsub.message_cache[1].timestamp > 1 - (CacheCap - 1)
    /\ last.op = "get_cached_messages" /\ last.arg = None
    /\ last.res = gossipsub.message_cache

----------------------------------------------------------------------------
\* C34: the probe history never holds more than 100 entries; record_probe_result
\* leaves the most recent min(n + 1, 100) results in order, the new one last;
\* get_last_probe_result returns None exactly when the history is empty and
\* otherwise the last element of the history.
LastOf(history) == IF history = <<>> THEN None ELSE Some(history[Len(history)])
C34_ProbeHistory ==
    /\ [](/\ Len(autonat.probe_history) <= ProbeCap
          /\ autonat.last_probe_result = LastOf(autonat.probe_history))
    /\ [][LET old == autonat.probe_history
              new == autonat'.probe_history
          IN  /\ Did("record_probe_result") =>
                   /\ Len(new) = IF Len(old) < ProbeCap THEN Len(old) + 1 ELSE ProbeCap
                   /\ new[Len(new)] = last'.arg
                   /\ SubSeq(new, 1, Len(new) - 1)
                        = SubSeq(old, Len(old) - Len(new) + 2, Len(old))
              /\ Did("get_last_probe_result") => last'.res = LastOf(old)
              /\ Did("get_probe_history") => last'.res = old]_vars
\* The history is full after its oldest entry was dropped, and
\* get_last_probe_result has returned its last element.
C34_Witness ==
    /\ last.op = "get_last_probe_result"
    /\ Len(autonat.probe_history) = ProbeCap
    /\ ncalls >= 2
    /\ last.res = Some(autonat.probe_history[ProbeCap])

----------------------------------------------------------------------------
\* C35: the topics map and the subscribed_peers map of a GossipsubManager have
\* the same keys, no peer is twice in the list of a topic, and
\* add_peer_to_topic on a topic that does not exist fails and changes nothing.
NoDuplicates(list) == \A i, j \in 1..Len(list) : list[i] = list[j] => i = j
C35_RegistryConsistent ==
    /\ [](/\ DOMAIN gossipsub.topics = DOMAIN gossipsub.subscribed_peers
          /\ \A name \in DOMAIN gossipsub.subscribed_peers :
                NoDuplicates(gossipsub.subscribed_peers[name]))
    /\ [][(Did("add_peer_to_topic") /\ last'.arg.topic \notin DOMAIN gossipsub.topics)
            => (last'.res = "KeyError" /\ gossipsub' = gossipsub)]_vars
\* One topic lists every peer, and add_peer_to_topic on the other topic, which
\* does not exist, has just failed.
C35_Witness ==
    /\ last.op = "add_peer_to_topic" /\ last.res = "KeyError"
    /\ last.arg.topic \notin DOMAIN gossipsub.topics
    /\ \E name \in DOMAIN gossipsub.subscribed_peers :
         Len(gossipsub.subscribed_peers[name]) = Cardinality(Peers)

\* C36: create_topic is idempotent: on a topic that exists it leaves the
\* manager as it was, and get_topic_peers returns the peers it returned before.
C36_CreateTopicIdempotent ==
    [][(Did("create_topic") /\ last'.arg \in DOMAIN gossipsub.topics)
         => /\ gossipsub' = gossipsub
            /\ TopicPeers(gossipsub', last'.arg) = TopicPeers(gossipsub, last'.arg)]_vars

----------------------------------------------------------------------------
\* C37: in a StreamManager the stream identifiers that have a stream_stats
\* entry are the stream identifiers listed under some protocol in
\* active_streams: no stats without a stream, no stream without stats.
ListedStreams ==
    UNION {Range(stream_manager.active_streams[protocol]) :
             protocol \in DOMAIN stream_manager.active_streams}
C37_StatsMatchStreams == DOMAIN stream_manager.stream_stats = ListedStreams

\* C38: add_stream succeeds if and only if the protocol has a registered
\* handler (it is a key of get_protocol_handlers), and an add_stream that fails
\* leaves the manager as it was.
C38_AddStreamIffHandler ==
    [][Did("add_stream") =>
         /\ last'.res = "Ok" <=> last'.arg.protocol \in DOMAIN stream_manager.protocol_handlers
         /\ last'.res # "Ok" => stream_manager' = stream_manager]_vars

----------------------------------------------------------------------------
\* C39: MemoryStorage keeps its two views in step: for every key, get_record
\* returns a value if and only if has_record is true, that value is the value
\* get_record_info reports, and after clear() get_record returns None for
\* every key.
C39_ViewsInStep ==
    /\ [](\A key \in Keys :
            /\ StoredValue(memory_storage, key) # None <=> HasKey(memory_storage, key)
            /\ HasKey(memory_storage, key) =>
                  StoredValue(memory_storage, key)
                    = Some(RecordInfo(memory_storage, key)[1].value))
    /\ [][Did("clear") => \A key \in Keys : StoredValue(memory_storage', key) = None]_vars

----------------------------------------------------------------------------
\* C40: the mutations of a PersistentStorage are all-or-nothing: when
\* put_record, update_record, remove_record or clear returns the error of a
\* failed save, the records in memory are those of before the call, so that the
\* records in memory are always what the last successful save wrote.
C40_AllOrNothing ==
    /\ [](persistent_storage.records =
            IF persistent_storage.file = None THEN <<>> ELSE persistent_storage.file[1])
    /\ [][((Did("put_record") \/ Did("update_record") \/ Did("remove_record") \/ Did("clear"))
             /\ last'.res = "SaveError")
            => persistent_storage'.records = persistent_storage.records]_vars
====
